---- MODULE Spec2Model ----
(***************************************************************************)
(* Finopoly (streamlit_app.py): the console board game as a state machine. *)
(*                                                                         *)
(* Amounts of money and of users are Python floats in the source.  Here    *)
(* they are fixed-point integers: the value v is held as v * S.  The       *)
(* products the source forms (x * 0.06, x * 0.15, x * 1.5, x / 1.1 ...)    *)
(* are formed in the same order and rounded down to a multiple of 1/S.     *)
(* equity_dilution is held in hundredths (0.10 is 10).                     *)
(***************************************************************************)
EXTENDS Integers, Sequences, FiniteSets, TLC

VARIABLES
    players,              \* Finopoly.players: the list of players in the game (ids)
    player,               \* the Player objects, by id (an object outlives its removal)
    project,              \* the mutable fields of the Project objects, by index
    board,                \* Finopoly.board
    current_round,        \* Finopoly.current_round
    current_player_index, \* Finopoly.current_player_index
    game_over,            \* Finopoly.game_over
    i,                    \* play_game: the for loop's next index
    pc,                   \* play_game: "round", "over" (returned), "error" (exception)
    scoreboard,           \* the table show_scoreboard printed last
    final_scores,         \* end_game: the sorted final_scores list
    winner,               \* end_game: the player announced (0: none)
    returned              \* the last method called directly on an object, and its return value

vars == << players, player, project, board, current_round, current_player_index,
           game_over, i, pc, scoreboard, final_scores, winner, returned >>

(***************************************************************************)
(* Bounds of the model                                                     *)
(***************************************************************************)
\* The die faces explored are 1..RollBound (the die has DieSides faces).
RollBound == 1
\* Direct calls of the Player methods keep cash at most MaxCash, users at most
\* MaxUsers and the number of owned projects at most MaxOwned; direct calls
\* of handle_financing_tile stop at MaxHistory entries in a financing history.
MaxCash == 150
MaxUsers == 3
MaxOwned == 2
MaxHistory == 2

(***************************************************************************)
(* Program constants                                                       *)
(***************************************************************************)
S == 100 * 100
MinPlayers == 3
NumPlayers == MinPlayers
DieSides == 6
BoardSize == 20
StartingCash == 100
StartingUsers == 1
LastRound == 5
IpoFirstRound == 4
IpoProceeds == 100
ExpandCost == 20
PivotCost == 15

Min(a, b) == IF a <= b THEN a ELSE b
Max(a, b) == IF a >= b THEN a ELSE b

\* create_projects: name, cost, life, annual_cash_flow, user_gain
Projects == <<
    [name |-> "Expand to Asia Market",  cost |-> 50 * S, life |-> 3, annual_cash_flow |-> 20 * S, user_gain |-> 20000],
    [name |-> "Referral Program",       cost |-> 20 * S, life |-> 3, annual_cash_flow |-> 12 * S, user_gain |-> 15000],
    [name |-> "Retail Partnership",     cost |-> 40 * S, life |-> 3, annual_cash_flow |-> 18 * S, user_gain |-> 18000],
    [name |-> "AI Fraud Prevention",    cost |-> 30 * S, life |-> 3, annual_cash_flow |-> 15 * S, user_gain |-> 10000],
    [name |-> "Product Launch",         cost |-> 35 * S, life |-> 2, annual_cash_flow |-> 25 * S, user_gain |-> 25000],
    [name |-> "Mobile App Redesign",    cost |-> 25 * S, life |-> 2, annual_cash_flow |-> 15 * S, user_gain |-> 12000],
    [name |-> "Blockchain Integration", cost |-> 45 * S, life |-> 3, annual_cash_flow |-> 17 * S, user_gain |-> 15000],
    [name |-> "Customer Support AI",    cost |-> 30 * S, life |-> 2, annual_cash_flow |-> 18 * S, user_gain |-> 8000] >>

\* create_financing_options: name, max_amount (in list order)
FinancingOptions == <<
    [name |-> "Debt",       max_amount |-> 50],
    [name |-> "VC Funding", max_amount |-> 40],
    [name |-> "Equity",     max_amount |-> 60],
    [name |-> "IPO",        max_amount |-> 100] >>

\* create_events (in list order)
Events == << "Economic Downturn", "Cybersecurity Breach", "Data Leak Scandal",
             "Regulatory Fine", "System Crash", "Market Expansion",
             "Strategic Partnership", "Talent Acquisition" >>

\* Project.__init__: owner None (0), purchase_round None (0)
NewProject(k) ==
    [owner |-> 0, purchase_round |-> 0,
     annual_cash_flow |-> Projects[k].annual_cash_flow, life |-> Projects[k].life]

\* Player.__init__
NewPlayer ==
    [cash |-> StartingCash * S, users |-> StartingUsers * S, position |-> 0,
     projects |-> << >>, financing_history |-> << >>, debt |-> 0,
     equity_dilution |-> 0, vc_funding_used |-> FALSE, ipo_done |-> FALSE,
     skip_next_turn |-> FALSE]

(***************************************************************************)
(* create_board                                                            *)
(***************************************************************************)
\* create_board with three Financing tiles (and three Event tiles)
TileForThreeFinancing(j, pos) ==
    IF j <= 8 THEN [position |-> pos, tile_type |-> "Investment", action |-> "Project",
                    project |-> ((j - 1) % Len(Projects)) + 1]
    ELSE IF j <= 11 THEN [position |-> pos, tile_type |-> "Financing", action |-> "None", project |-> 0]
    ELSE IF j <= 14 THEN [position |-> pos, tile_type |-> "Event", action |-> "None", project |-> 0]
    ELSE IF j <= 18 THEN [position |-> pos, tile_type |-> "Neutral", action |-> "None", project |-> 0]
    ELSE IF j = 19 THEN [position |-> pos, tile_type |-> "Special", action |-> "IPO", project |-> 0]
    ELSE [position |-> pos, tile_type |-> "Special", action |-> "Strategy", project |-> 0]

\* The tile made for the j-th entry (1-based) of the shuffled positions list.
TileFor(j, pos) ==
    IF j <= 8 THEN [position |-> pos, tile_type |-> "Investment", action |-> "Project",
                    project |-> ((j - 1) % Len(Projects)) + 1]
    ELSE IF j <= 10 THEN [position |-> pos, tile_type |-> "Financing", action |-> "None", project |-> 0]
    ELSE IF j <= 14 THEN [position |-> pos, tile_type |-> "Event", action |-> "None", project |-> 0]
    ELSE IF j <= 18 THEN [position |-> pos, tile_type |-> "Neutral", action |-> "None", project |-> 0]
    ELSE IF j = 19 THEN [position |-> pos, tile_type |-> "Special", action |-> "IPO", project |-> 0]
    ELSE [position |-> pos, tile_type |-> "Special", action |-> "Strategy", project |-> 0]

\* self.board = [None] * 20: an entry not assigned yet
NoTile == [position |-> 0 - 1, tile_type |-> "None", action |-> "None", project |-> 0]

\* The assignments self.board[pos] = Tile(pos, ...), in the order of the
\* positions list.  board[pos] for pos in 0..19 is held at index pos + 1.
RECURSIVE AssignTiles(_, _, _)
AssignTiles(j, positions, b) ==
    IF j > Len(positions) THEN b
    ELSE AssignTiles(j + 1, positions,
                     [b EXCEPT ![positions[j] + 1] = TileFor(j, positions[j])])

CreateBoard(positions) ==
    AssignTiles(1, positions, [idx \in 1..BoardSize |-> NoTile])

(***************************************************************************)
(* Player                                                                  *)
(***************************************************************************)
\* The discounted sum over year = 1..remaining_life of annual_cash_flow / 1.1^year.
RECURSIVE Discounted(_, _)
Discounted(cash_flow, years) ==
    IF years <= 0 THEN 0
    ELSE LET term == (cash_flow * 10) \div 11
         IN term + Discounted(term, years - 1)

RECURSIVE SumNpv(_, _, _)
SumNpv(projs, prj, round) ==
    IF projs = << >> THEN 0
    ELSE LET k == Head(projs)
             remaining_life == prj[k].life - (round - prj[k].purchase_round)
         IN (IF remaining_life > 0 THEN Discounted(prj[k].annual_cash_flow, remaining_life) ELSE 0)
            + SumNpv(Tail(projs), prj, round)

\* Player.calculate_total_npv
CalculateTotalNpv(q, prj, round) ==
    LET total_npv == SumNpv(q.projects, prj, round)
        diluted == (total_npv * (100 - q.equity_dilution)) \div 100
    IN IF q.ipo_done THEN (diluted * 7) \div 10 ELSE diluted

\* calculate_total_npv writing the diluted cash flows back to the projects
CalculateTotalNpvWritesBack(q, prj, round) ==
    [self |-> q,
     projects |-> [k \in DOMAIN prj |->
                      IF \E j \in 1..Len(q.projects) : q.projects[j] = k
                      THEN [prj[k] EXCEPT !.annual_cash_flow = (@ * 7) \div 10]
                      ELSE prj[k]]]

\* Player.calculate_total_npv: the player and the projects after the call (it
\* assigns to local variables only)
CalculateTotalNpvLeaves(q, prj, round) == [self |-> q, projects |-> prj]

\* Player.can_afford
CanAfford(q, amount) == q.cash >= amount

\* pay that deducts whether or not the player can afford the amount
PayAlways(q, amount) == [q EXCEPT !.cash = @ - amount]

\* Player.pay: the player after the call (unchanged when it returns False)
Pay(q, amount) == IF CanAfford(q, amount) THEN [q EXCEPT !.cash = @ - amount] ELSE q
\* Player.pay: the value returned
PayReturns(q, amount) == CanAfford(q, amount)

\* Player.receive
Receive(q, amount) == [q EXCEPT !.cash = @ + amount]

\* Player.add_users
AddUsers(q, count) == [q EXCEPT !.users = @ + count]

\* lose_users without max(0, ...)
LoseUsersUnfloored(q, count) == [q EXCEPT !.users = @ - count]

\* Player.lose_users
LoseUsers(q, count) == [q EXCEPT !.users = Max(0, @ - count)]

\* add_project with "project.owner = self" lost
BindOwnerUnset(pr, p, round) == [pr EXCEPT !.purchase_round = round]

\* Player.add_project: the player's side, and the project's side
AddProject(q, k) == [q EXCEPT !.projects = Append(@, k)]
BindOwner(pr, p, round) == [pr EXCEPT !.owner = p, !.purchase_round = round]

\* add_financing with "self.vc_funding_used = True" lost
AddFinancingFlagLost(q, name, amount) ==
    LET h == [q EXCEPT !.financing_history = Append(@, << name, amount >>)]
    IN CASE name = "Debt"       -> [h EXCEPT !.debt = @ + amount]
         [] name = "VC Funding" -> [h EXCEPT !.equity_dilution = @ + 10]
         [] name = "Equity"     -> [h EXCEPT !.equity_dilution = @ + 20]
         [] name = "IPO"        -> [h EXCEPT !.ipo_done = TRUE]
         [] OTHER               -> h

\* add_financing with "self.equity_dilution += 0.50" for Equity
AddFinancingEquity50(q, name, amount) ==
    LET h == [q EXCEPT !.financing_history = Append(@, << name, amount >>)]
    IN CASE name = "Debt"       -> [h EXCEPT !.debt = @ + amount]
         [] name = "VC Funding" -> [h EXCEPT !.vc_funding_used = TRUE, !.equity_dilution = @ + 10]
         [] name = "Equity"     -> [h EXCEPT !.equity_dilution = @ + 50]
         [] name = "IPO"        -> [h EXCEPT !.ipo_done = TRUE]
         [] OTHER               -> h

\* Player.add_financing
AddFinancing(q, name, amount) ==
    LET h == [q EXCEPT !.financing_history = Append(@, << name, amount >>)]
    IN CASE name = "Debt"       -> [h EXCEPT !.debt = @ + amount]
         [] name = "VC Funding" -> [h EXCEPT !.vc_funding_used = TRUE, !.equity_dilution = @ + 10]
         [] name = "Equity"     -> [h EXCEPT !.equity_dilution = @ + 20]
         [] name = "IPO"        -> [h EXCEPT !.ipo_done = TRUE]
         [] OTHER               -> h

RECURSIVE SumCashFlow(_, _)
SumCashFlow(projs, prj) ==
    IF projs = << >> THEN 0
    ELSE prj[Head(projs)].annual_cash_flow + SumCashFlow(Tail(projs), prj)

\* collect_project_revenues with "self.cash = total_revenue"
CollectProjectRevenuesOverwrites(q, prj) == [q EXCEPT !.cash = SumCashFlow(q.projects, prj)]

\* Player.collect_project_revenues
CollectProjectRevenues(q, prj) == [q EXCEPT !.cash = @ + SumCashFlow(q.projects, prj)]

\* any(p.name in names for p in player.projects)
OwnsNamed(q, names) == \E j \in 1..Len(q.projects) : Projects[q.projects[j]].name \in names

\* list.remove(x): the list without its first x
RECURSIVE Remove(_, _)
Remove(list, x) ==
    IF list = << >> THEN << >>
    ELSE IF Head(list) = x THEN Tail(list)
    ELSE << Head(list) >> \o Remove(Tail(list), x)

(***************************************************************************)
(* Console input: a line is "y", "n", ...; a line given to int() is        *)
(* << n >> when it parses as the integer n and << >> when int() raises     *)
(* ValueError.                                                             *)
(***************************************************************************)
IsNumber(line) == Len(line) = 1
IntOf(line) == line[1]

(***************************************************************************)
(* Tile handlers.  Each gives the Player objects and the Project objects   *)
(* after the call, as [pl |-> ..., pr |-> ...].                            *)
(***************************************************************************)
\* handle_investment_tile with the can_afford test lost and pay's result ignored
HandleInvestmentTileFundsUnchecked(pl, pr, p, tile, round, choice) ==
    LET k == tile.project
        cost == Projects[k].cost
    IN IF pr[k].owner # 0 THEN [pl |-> pl, pr |-> pr]
       ELSE IF choice = "y"
            THEN [pl |-> [pl EXCEPT ![p] = AddUsers(AddProject(Pay(@, cost), k), Projects[k].user_gain)],
                  pr |-> [pr EXCEPT ![k] = BindOwner(@, p, round)]]
            ELSE [pl |-> pl, pr |-> pr]

\* handle_investment_tile taking a project for owned only while its owner is
\* in self.players
HandleInvestmentTileOwnerInGame(pl, pr, p, tile, round, choice) ==
    LET k == tile.project
        cost == Projects[k].cost
    IN IF pr[k].owner # 0 /\ \E j \in 1..Len(players) : players[j] = pr[k].owner
       THEN [pl |-> pl, pr |-> pr]
       ELSE IF ~CanAfford(pl[p], cost) THEN [pl |-> pl, pr |-> pr]
       ELSE IF choice = "y"
            THEN [pl |-> [pl EXCEPT ![p] = AddUsers(AddProject(Pay(@, cost), k), Projects[k].user_gain)],
                  pr |-> [pr EXCEPT ![k] = BindOwner(@, p, round)]]
            ELSE [pl |-> pl, pr |-> pr]

\* Finopoly.handle_investment_tile
HandleInvestmentTile(pl, pr, p, tile, round, choice) ==
    LET k == tile.project
        cost == Projects[k].cost
    IN IF pr[k].owner # 0 THEN [pl |-> pl, pr |-> pr]
       ELSE IF ~CanAfford(pl[p], cost) THEN [pl |-> pl, pr |-> pr]
       ELSE IF choice = "y"
            THEN [pl |-> [pl EXCEPT ![p] = AddUsers(AddProject(Pay(@, cost), k), Projects[k].user_gain)],
                  pr |-> [pr EXCEPT ![k] = BindOwner(@, p, round)]]
            ELSE [pl |-> pl, pr |-> pr]

\* handle_financing_tile: the available_options list built by the loop
RECURSIVE AvailableFrom(_, _, _)
AvailableFrom(j, q, round) ==
    IF j > Len(FinancingOptions) THEN << >>
    ELSE LET option == FinancingOptions[j]
         IN IF option.name = "VC Funding" /\ q.vc_funding_used THEN AvailableFrom(j + 1, q, round)
            ELSE IF option.name = "IPO" /\ round < IpoFirstRound THEN AvailableFrom(j + 1, q, round)
            ELSE << option >> \o AvailableFrom(j + 1, q, round)

AvailableOptions(q, round) == AvailableFrom(1, q, round)

\* handle_financing_tile: the menu lines printed by the same loop,
\* "{i+1}. {option.name}: ..." with i the index in self.financing_options
RECURSIVE PrintedFrom(_, _, _)
PrintedFrom(j, q, round) ==
    IF j > Len(FinancingOptions) THEN << >>
    ELSE LET option == FinancingOptions[j]
         IN IF option.name = "VC Funding" /\ q.vc_funding_used THEN PrintedFrom(j + 1, q, round)
            ELSE IF option.name = "IPO" /\ round < IpoFirstRound THEN PrintedFrom(j + 1, q, round)
            ELSE << [number |-> j, name |-> option.name] >> \o PrintedFrom(j + 1, q, round)

PrintedOptions(q, round) == PrintedFrom(1, q, round)

\* handle_financing_tile taking the maximum when the amount typed is no number
ApplyOptionDefaultsToMax(q, option, amount_line) ==
    LET amount == IF option.name \in {"Debt", "Equity"} /\ IsNumber(amount_line)
                  THEN Min(IntOf(amount_line), option.max_amount)
                  ELSE option.max_amount
    IN AddFinancing(Receive(q, amount * S), option.name, amount * S)

\* handle_financing_tile without min(..., max_amount)
ApplyOptionUncapped(q, option, amount_line) ==
    CASE option.name \in {"Debt", "Equity"} ->
            IF IsNumber(amount_line)
            THEN LET amount == IntOf(amount_line)
                 IN AddFinancing(Receive(q, amount * S), option.name, amount * S)
            ELSE q
      [] option.name \in {"VC Funding", "IPO"} ->
            AddFinancing(Receive(q, option.max_amount * S), option.name, option.max_amount * S)
      [] OTHER -> q

\* handle_financing_tile: the effect of the selected option on the player
ApplyOption(q, option, amount_line) ==
    CASE option.name \in {"Debt", "Equity"} ->
            IF IsNumber(amount_line)
            THEN LET amount == Min(IntOf(amount_line), option.max_amount)
                 IN AddFinancing(Receive(q, amount * S), option.name, amount * S)
            ELSE q
      [] option.name \in {"VC Funding", "IPO"} ->
            AddFinancing(Receive(q, option.max_amount * S), option.name, option.max_amount * S)
      [] OTHER -> q

\* Finopoly.handle_financing_tile
HandleFinancingTile(pl, pr, p, round, choice_line, amount_line) ==
    LET available_options == AvailableOptions(pl[p], round)
    IN IF available_options = << >> THEN [pl |-> pl, pr |-> pr]
       ELSE IF ~IsNumber(choice_line) THEN [pl |-> pl, pr |-> pr]
       ELSE IF IntOf(choice_line) = 0 THEN [pl |-> pl, pr |-> pr]
       ELSE IF 1 <= IntOf(choice_line) /\ IntOf(choice_line) <= Len(available_options)
            THEN [pl |-> [pl EXCEPT ![p] = ApplyOption(@, available_options[IntOf(choice_line)], amount_line)],
                  pr |-> pr]
            ELSE [pl |-> pl, pr |-> pr]

\* Finopoly.handle_event_tile, for the event random.choice drew
HandleEventTile(pl, pr, p, event) ==
    LET q == pl[p]
        after ==
          CASE event = "Economic Downturn" ->
                  [q EXCEPT !.cash = @ - ((SumCashFlow(q.projects, pr) * 15) \div 100)]
            [] event = "Cybersecurity Breach" ->
                  IF OwnsNamed(q, {"AI Fraud Prevention", "Blockchain Integration"})
                  THEN q ELSE [q EXCEPT !.cash = @ - 15 * S]
            [] event = "Data Leak Scandal" -> LoseUsers(q, 1 * S)
            [] event = "Regulatory Fine" ->
                  IF OwnsNamed(q, {"AI Fraud Prevention"})
                  THEN q ELSE [q EXCEPT !.cash = @ - 10 * S]
            [] event = "System Crash" -> [q EXCEPT !.skip_next_turn = TRUE]
            [] event = "Market Expansion" -> AddUsers(q, S \div 2)
            [] event = "Strategic Partnership" -> Receive(q, 10 * S)
            [] OTHER -> q
    IN [pl |-> [pl EXCEPT ![p] = after], pr |-> pr]

\* Finopoly.handle_neutral_tile
HandleNeutralTile(pl, pr, p) ==
    [pl |-> [pl EXCEPT ![p] = CollectProjectRevenues(@, pr)], pr |-> pr]

\* the IPO tile with "self.current_round >= 4" lost
HandleIpoTileAnyRound(pl, pr, p, round, choice) ==
    IF ~pl[p].ipo_done
    THEN IF choice = "y"
         THEN [pl |-> [pl EXCEPT ![p] = [Receive(@, IpoProceeds * S) EXCEPT !.ipo_done = TRUE]], pr |-> pr]
         ELSE [pl |-> pl, pr |-> pr]
    ELSE [pl |-> pl, pr |-> pr]

\* handle_special_tile, tile.action == "IPO"
HandleIpoTile(pl, pr, p, round, choice) ==
    IF round >= IpoFirstRound /\ ~pl[p].ipo_done
    THEN IF choice = "y"
         THEN [pl |-> [pl EXCEPT ![p] = [Receive(@, IpoProceeds * S) EXCEPT !.ipo_done = TRUE]], pr |-> pr]
         ELSE [pl |-> pl, pr |-> pr]
    ELSE [pl |-> pl, pr |-> pr]

\* the Strategy tile with the can_afford tests lost (pay still refuses)
HandleStrategyTileUngated(pl, pr, p, project_line, strategy_line) ==
    LET q == pl[p]
        same == [pl |-> pl, pr |-> pr]
    IN IF q.projects = << >> THEN same
       ELSE IF ~IsNumber(project_line) THEN same
       ELSE IF IntOf(project_line) = 0 THEN same
       ELSE IF 1 <= IntOf(project_line) /\ IntOf(project_line) <= Len(q.projects)
            THEN LET k == q.projects[IntOf(project_line)]
                 IN IF ~IsNumber(strategy_line) THEN same
                    ELSE CASE IntOf(strategy_line) = 1 ->
                                [pl |-> [pl EXCEPT ![p] = Pay(@, ExpandCost * S)],
                                 pr |-> [pr EXCEPT ![k].annual_cash_flow = (@ * 3) \div 2]]
                           [] IntOf(strategy_line) = 2 ->
                                [pl |-> [pl EXCEPT ![p] = Pay(@, PivotCost * S)],
                                 pr |-> [pr EXCEPT ![k].annual_cash_flow = (@ * 6) \div 5,
                                                    ![k].life = @ + 1]]
                           [] IntOf(strategy_line) = 3 ->
                                [pl |-> [pl EXCEPT ![p] = [Receive(@, Projects[k].cost \div 2)
                                                             EXCEPT !.projects = Remove(@, k)]],
                                 pr |-> [pr EXCEPT ![k].owner = 0]]
                           [] OTHER -> same
            ELSE same

\* handle_special_tile, tile.action == "Strategy"
HandleStrategyTile(pl, pr, p, project_line, strategy_line) ==
    LET q == pl[p]
        same == [pl |-> pl, pr |-> pr]
    IN IF q.projects = << >> THEN same
       ELSE IF ~IsNumber(project_line) THEN same
       ELSE IF IntOf(project_line) = 0 THEN same
       ELSE IF 1 <= IntOf(project_line) /\ IntOf(project_line) <= Len(q.projects)
            THEN LET k == q.projects[IntOf(project_line)]
                 IN IF ~IsNumber(strategy_line) THEN same
                    ELSE CASE IntOf(strategy_line) = 1 ->
                                IF CanAfford(q, ExpandCost * S)
                                THEN [pl |-> [pl EXCEPT ![p] = Pay(@, ExpandCost * S)],
                                      pr |-> [pr EXCEPT ![k].annual_cash_flow = (@ * 3) \div 2]]
                                ELSE same
                           [] IntOf(strategy_line) = 2 ->
                                IF CanAfford(q, PivotCost * S)
                                THEN [pl |-> [pl EXCEPT ![p] = Pay(@, PivotCost * S)],
                                      pr |-> [pr EXCEPT ![k].annual_cash_flow = (@ * 6) \div 5,
                                                         ![k].life = @ + 1]]
                                ELSE same
                           [] IntOf(strategy_line) = 3 ->
                                [pl |-> [pl EXCEPT ![p] = [Receive(@, Projects[k].cost \div 2)
                                                             EXCEPT !.projects = Remove(@, k)]],
                                 pr |-> [pr EXCEPT ![k].owner = 0]]
                           [] OTHER -> same
            ELSE same

\* Finopoly.handle_special_tile
HandleSpecialTile(pl, pr, p, tile, round, choice, project_line, strategy_line) ==
    IF tile.action = "IPO" THEN HandleIpoTile(pl, pr, p, round, choice)
    ELSE IF tile.action = "Strategy" THEN HandleStrategyTile(pl, pr, p, project_line, strategy_line)
    ELSE [pl |-> pl, pr |-> pr]

(***************************************************************************)
(* End of round, scoreboard, end of game                                   *)
(***************************************************************************)
\* handle_end_of_round: the loop "for player in self.players", whose iterator
\* is at index k of the list as it is now (removing an element moves the later
\* ones down while the iterator's index stays).
RECURSIVE InterestLoop(_, _, _)
InterestLoop(k, plist, pl) ==
    IF k >= Len(plist) THEN [players |-> plist, pl |-> pl]
    ELSE LET p == plist[k + 1]
             interest == (pl[p].debt * 6) \div 100
         IN IF pl[p].debt > 0
            THEN IF CanAfford(pl[p], interest)
                 THEN InterestLoop(k + 1, plist, [pl EXCEPT ![p].cash = @ - interest])
                 ELSE InterestLoop(k + 1, Remove(plist, p), pl)
            ELSE InterestLoop(k + 1, plist, pl)

\* f"{x:.2f}": x rounded to hundredths (held in hundredths)
Fmt2(x) == IF x >= 0 THEN (x + S \div 200) \div (S \div 100)
           ELSE 0 - ((S \div 200 - x) \div (S \div 100))

\* Finopoly.show_scoreboard: the rows of the table
ShowScoreboard(plist, pl, pr, round) ==
    [j \in 1..Len(plist) |->
        LET q == pl[plist[j]]
        IN [player |-> plist[j], cash |-> Fmt2(q.cash), users |-> Fmt2(q.users),
            projects |-> Len(q.projects), npv |-> Fmt2(CalculateTotalNpv(q, pr, round)),
            debt |-> Fmt2(q.debt)]]

\* strategic_score with the 0.2 weight applied twice
StrategicScoreTwice(q) ==
    (((IF q.ipo_done THEN 10 ELSE 0) + Len(q.projects) * 2) * S * 2 * 2) \div 10

\* end_game: strategic_score, in units of 1/(10 S)
StrategicScore(q) ==
    ((IF q.ipo_done THEN 10 ELSE 0) + Len(q.projects) * 2) * S * 2

\* end_game: total_score, in units of 1/(10 S)
TotalScore(q, pr, round) ==
    CalculateTotalNpv(q, pr, round) * 4 + q.users * 3 + q.cash * 1 + StrategicScore(q)

\* end_game: the final_scores tuple of a player
ScoreEntry(p, pl, pr, round) ==
    [player |-> p, total_score |-> TotalScore(pl[p], pr, round),
     npv |-> CalculateTotalNpv(pl[p], pr, round), users |-> pl[p].users,
     cash |-> pl[p].cash, strategic |-> StrategicScore(pl[p])]

\* list.sort(key=total_score, reverse=True): stable, so equal scores keep their order
RECURSIVE InsertByScore(_, _)
InsertByScore(e, sorted) ==
    IF sorted = << >> THEN << e >>
    ELSE IF Head(sorted).total_score >= e.total_score
         THEN << Head(sorted) >> \o InsertByScore(e, Tail(sorted))
         ELSE << e >> \o sorted

RECURSIVE SortedScores(_, _)
SortedScores(entries, sorted) ==
    IF entries = << >> THEN sorted
    ELSE SortedScores(Tail(entries), InsertByScore(Head(entries), sorted))

\* end_game: final_scores after the sort
FinalScores(plist, pl, pr, round) ==
    SortedScores([j \in 1..Len(plist) |-> ScoreEntry(plist[j], pl, pr, round)], << >>)

(***************************************************************************)
(* The game                                                                *)
(***************************************************************************)
\* Finopoly.__init__ and play_game up to the main loop, for a shuffle of the positions
NoCall == [call |-> "none", self |-> 0, args |-> << >>, value |-> 0]

InitGame(positions) ==
    /\ players = [j \in 1..NumPlayers |-> j]
    /\ player = [p \in 1..NumPlayers |-> NewPlayer]
    /\ project = [k \in 1..Len(Projects) |-> NewProject(k)]
    /\ board = CreateBoard(positions)
    /\ current_round = 1
    /\ current_player_index = 0
    /\ game_over = FALSE
    /\ i = 0
    /\ pc = "round"
    /\ scoreboard = << >>
    /\ final_scores = << >>
    /\ winner = 0
    /\ returned = NoCall

\* the turn given to the first player whatever the index
CurrentFirst == players[1]

\* play_game: the loop body runs for index i
InTurn == pc = "round" /\ ~game_over /\ i < Len(players)
\* play_game: the for loop is exhausted and handle_end_of_round is called
RoundEnds == pc = "round" /\ ~game_over /\ i >= Len(players)
Current == players[i + 1]

\* move_player on a board one position short
MovePlayerShortBoard(q, steps) == [q EXCEPT !.position = (@ + steps) % (Len(board) - 1)]

\* Finopoly.move_player
MovePlayer(q, steps) == [q EXCEPT !.position = (@ + steps) % Len(board)]
TileAt(pos) == board[pos + 1]

\* What every turn does to the loop
TurnDone ==
    /\ current_player_index' = i
    /\ i' = i + 1
    /\ UNCHANGED << players, board, current_round, game_over, pc, scoreboard, final_scores,
                    winner, returned >>

\* play_turn with "player.skip_next_turn = False" lost
TurnSkippedFlagKept ==
    /\ pc = "round" /\ ~game_over /\ i < Len(players)
    /\ player[players[i + 1]].skip_next_turn
    /\ UNCHANGED << player, project >>
    /\ current_player_index' = i
    /\ i' = i + 1
    /\ UNCHANGED << players, board, current_round, game_over, pc, scoreboard, final_scores,
                    winner, returned >>

\* play_turn, skip_next_turn set
TurnSkipped ==
    /\ InTurn
    /\ player[Current].skip_next_turn
    /\ player' = [player EXCEPT ![Current].skip_next_turn = FALSE]
    /\ UNCHANGED project
    /\ TurnDone

\* play_turn: roll, move, then the handler of the tile's type
Landed(dice_roll, tile_type) ==
    /\ InTurn
    /\ ~player[Current].skip_next_turn
    /\ TileAt(MovePlayer(player[Current], dice_roll).position).tile_type = tile_type

Moved(dice_roll) == [player EXCEPT ![Current] = MovePlayer(@, dice_roll)]
LandedTile(dice_roll) == TileAt(MovePlayer(player[Current], dice_roll).position)

Apply(result) ==
    /\ player' = result.pl
    /\ project' = result.pr
    /\ TurnDone

\* The turns, by the type of the tile landed on.  The die faces, the lines
\* typed and the events drawn come from the sets given.
TurnInvestment(rolls, typed) ==
    \E dice_roll \in rolls, choice \in typed :
        /\ Landed(dice_roll, "Investment")
        /\ Apply(HandleInvestmentTile(Moved(dice_roll), project, Current,
                                      LandedTile(dice_roll), current_round, choice))

\* typed: pairs << menu line, amount line >>
TurnFinancing(rolls, typed) ==
    \E dice_roll \in rolls, lines \in typed :
        /\ Landed(dice_roll, "Financing")
        /\ Apply(HandleFinancingTile(Moved(dice_roll), project, Current,
                                     current_round, lines[1], lines[2]))

TurnEvent(rolls, draws) ==
    \E dice_roll \in rolls, event \in draws :
        /\ Landed(dice_roll, "Event")
        /\ Apply(HandleEventTile(Moved(dice_roll), project, Current, event))

TurnNeutral(rolls) ==
    \E dice_roll \in rolls :
        /\ Landed(dice_roll, "Neutral")
        /\ Apply(HandleNeutralTile(Moved(dice_roll), project, Current))

\* typed: triples << y/n at the IPO tile, project menu line, strategy menu line >>
TurnSpecial(rolls, typed) ==
    \E dice_roll \in rolls, lines \in typed :
        /\ Landed(dice_roll, "Special")
        /\ Apply(HandleSpecialTile(Moved(dice_roll), project, Current, LandedTile(dice_roll),
                                   current_round, lines[1], lines[2], lines[3]))

\* the end of the game tested one round late
PastLastRoundLate(round) == round > LastRound + 1

\* handle_end_of_round: "if self.current_round > 5"
PastLastRound(round) == round > LastRound

\* Finopoly.handle_end_of_round, with end_game when the round counter passes 5
EndOfRound ==
    /\ RoundEnds
    /\ LET after == InterestLoop(0, players, player)
           round == current_round + 1
           ended == PastLastRound(round)
           scores == IF ended THEN FinalScores(after.players, after.pl, project, round)
                     ELSE final_scores
       IN /\ players' = after.players
          /\ player' = after.pl
          /\ scoreboard' = ShowScoreboard(after.players, after.pl, project, current_round)
          /\ current_round' = round
          /\ i' = 0
          /\ game_over' = ended
          /\ final_scores' = scores
          \* winner = final_scores[0][0] raises IndexError on an empty list
          /\ winner' = IF ended /\ scores # << >> THEN scores[1].player ELSE winner
          /\ pc' = IF ~ended THEN pc ELSE IF scores = << >> THEN "error" ELSE "over"
    /\ UNCHANGED << project, board, current_player_index, returned >>

(***************************************************************************)
(* Methods called directly on the objects of a game that has not started   *)
(* a turn: the callee, the arguments and the value returned are recorded   *)
(* in returned.                                                            *)
(***************************************************************************)
Called(call, p, args, value) ==
    /\ returned' = [call |-> call, self |-> p, args |-> args, value |-> value]
    /\ UNCHANGED << players, board, current_round, current_player_index, game_over, i, pc,
                    final_scores, winner >>

\* player.pay(amount)
CallPay(targets, amounts) ==
    \E p \in targets, amount \in amounts :
        /\ player[p].cash - amount <= MaxCash * S
        /\ player' = [player EXCEPT ![p] = Pay(@, amount)]
        /\ Called("pay", p, << amount >>, PayReturns(player[p], amount))
        /\ UNCHANGED << project, scoreboard >>

\* player.receive(amount)
CallReceive(targets, amounts) ==
    \E p \in targets, amount \in amounts :
        /\ player[p].cash + amount <= MaxCash * S
        /\ player' = [player EXCEPT ![p] = Receive(@, amount)]
        /\ Called("receive", p, << amount >>, 0)
        /\ UNCHANGED << project, scoreboard >>

\* player.add_users(count)
CallAddUsers(targets, counts) ==
    \E p \in targets, count \in counts :
        /\ player[p].users + count <= MaxUsers * S
        /\ player' = [player EXCEPT ![p] = AddUsers(@, count)]
        /\ Called("add_users", p, << count >>, 0)
        /\ UNCHANGED << project, scoreboard >>

\* player.lose_users(count)
CallLoseUsers(targets, counts) ==
    \E p \in targets, count \in counts :
        /\ player' = [player EXCEPT ![p] = LoseUsers(@, count)]
        /\ Called("lose_users", p, << count >>, 0)
        /\ UNCHANGED << project, scoreboard >>

\* player.add_project(project, current_round), for a project without an owner
CallAddProject(targets, ks, rounds) ==
    \E p \in targets, k \in ks, round \in rounds :
        /\ project[k].owner = 0
        /\ Len(player[p].projects) < MaxOwned
        /\ player' = [player EXCEPT ![p] = AddProject(@, k)]
        /\ project' = [project EXCEPT ![k] = BindOwner(@, p, round)]
        /\ Called("add_project", p, << k, round >>, 0)
        /\ UNCHANGED scoreboard

\* player.add_financing(financing, amount) with the option's fixed amount, for
\* the options a player takes once
CallAddFinancing(targets, names) ==
    \E p \in targets, j \in 1..Len(FinancingOptions) :
        /\ FinancingOptions[j].name \in names
        /\ \A e \in 1..Len(player[p].financing_history) :
              player[p].financing_history[e][1] # FinancingOptions[j].name
        /\ player' = [player EXCEPT ![p] = AddFinancing(@, FinancingOptions[j].name,
                                                         FinancingOptions[j].max_amount * S)]
        /\ Called("add_financing", p, << FinancingOptions[j].name >>, 0)
        /\ UNCHANGED << project, scoreboard >>

\* player.calculate_total_npv(current_round)
CallCalculateTotalNpv(targets, rounds) ==
    \E p \in targets, round \in rounds :
        LET after == CalculateTotalNpvLeaves(player[p], project, round)
        IN /\ player' = [player EXCEPT ![p] = after.self]
           /\ project' = after.projects
           /\ Called("calculate_total_npv", p, << round >>,
                     CalculateTotalNpv(player[p], project, round))
           /\ UNCHANGED scoreboard

\* game.show_scoreboard(), which calls calculate_total_npv of every listed player
RECURSIVE ShowScoreboardLeaves(_, _, _, _)
ShowScoreboardLeaves(plist, pl, pr, round) ==
    IF plist = << >> THEN [pl |-> pl, pr |-> pr]
    ELSE LET p == Head(plist)
             after == CalculateTotalNpvLeaves(pl[p], pr, round)
         IN ShowScoreboardLeaves(Tail(plist), [pl EXCEPT ![p] = after.self], after.projects, round)

CallShowScoreboard ==
    LET after == ShowScoreboardLeaves(players, player, project, current_round)
    IN /\ scoreboard' = ShowScoreboard(players, player, project, current_round)
       /\ player' = after.pl
       /\ project' = after.pr
       /\ Called("show_scoreboard", 0, << >>, 0)

\* game.handle_financing_tile(player, tile): the lines typed are the argument
\* recorded and the menu printed is the value recorded
CallHandleFinancingTile(targets, typed) ==
    \E p \in targets, lines \in typed :
        LET result == HandleFinancingTile(player, project, p, current_round, lines[1], lines[2])
        IN /\ Len(player[p].financing_history) < MaxHistory
           /\ player' = result.pl
           /\ project' = result.pr
           /\ Called("handle_financing_tile", p, lines, PrintedOptions(player[p], current_round))
           /\ UNCHANGED scoreboard

\* game.handle_special_tile(player, tile) for the Strategic Decision tile of
\* the board
CallHandleStrategyTile(targets, typed) ==
    \E p \in targets, lines \in typed :
        LET tile == TileAt(CHOOSE pos \in 0..(BoardSize - 1) : TileAt(pos).action = "Strategy")
            result == HandleSpecialTile(player, project, p, tile, current_round, "n",
                                        lines[1], lines[2])
        IN /\ player' = result.pl
           /\ project' = result.pr
           /\ Called("handle_special_tile", p, lines, 0)
           /\ UNCHANGED scoreboard

(***************************************************************************)
(* Construction: Finopoly.__init__ up to initialize_game, and              *)
(* initialize_game for a shuffle of the positions                          *)
(***************************************************************************)
\* Finopoly.__init__: the fields before initialize_game runs (the Project
\* objects are held from the start; no player has been added)
InitBoard ==
    /\ players = << >>
    /\ player = << >>
    /\ project = [k \in 1..Len(Projects) |-> NewProject(k)]
    /\ board = << >>
    /\ current_round = 1
    /\ current_player_index = 0
    /\ game_over = FALSE
    /\ i = 0
    /\ pc = "init"
    /\ scoreboard = << >>
    /\ final_scores = << >>
    /\ winner = 0
    /\ returned = NoCall

\* Finopoly.initialize_game: create_board with the list random.shuffle left
InitializeGame(shuffles) ==
    /\ pc = "init"
    /\ \E positions \in shuffles : board' = CreateBoard(positions)
    /\ pc' = "created"
    /\ UNCHANGED << players, player, project, current_round, current_player_index,
                    game_over, i, scoreboard, final_scores, winner, returned >>

(***************************************************************************)
(* What the random generator and the players are taken to give             *)
(***************************************************************************)
Rolls == 1..Min(DieSides, RollBound)
EventDraws == {Events[e] : e \in 1..Len(Events)}

\* Shuffles are written as the board they give: the tile types of positions
\* 0..19 (I Investment, F Financing, E Event, N Neutral, P the IPO tile,
\* T the Strategic Decision tile).  ShuffleOf gives the positions list:
\* the I positions, then F, E, N, then P and T.
RECURSIVE PositionsOf(_, _, _)
PositionsOf(layout, letter, pos) ==
    IF pos >= Len(layout) THEN << >>
    ELSE (IF layout[pos + 1] = letter THEN << pos >> ELSE << >>)
         \o PositionsOf(layout, letter, pos + 1)

ShuffleOf(layout) ==
    PositionsOf(layout, "I", 0) \o PositionsOf(layout, "F", 0) \o PositionsOf(layout, "E", 0)
    \o PositionsOf(layout, "N", 0) \o PositionsOf(layout, "P", 0) \o PositionsOf(layout, "T", 0)

\* The same with the Investment positions in the order given (the j-th of
\* them gets the j-th project).
ShuffleWith(layout, investment_positions) ==
    investment_positions \o PositionsOf(layout, "F", 0) \o PositionsOf(layout, "E", 0)
    \o PositionsOf(layout, "N", 0) \o PositionsOf(layout, "P", 0) \o PositionsOf(layout, "T", 0)

LayoutDebt   == << "N", "F", "F", "N", "P", "I", "T", "E", "I", "I",
                   "I", "I", "I", "I", "I", "E", "E", "E", "N", "N" >>
LayoutEvent  == << "N", "E", "N", "T", "P", "I", "F", "F", "N", "N",
                   "E", "I", "I", "I", "I", "I", "I", "I", "E", "E" >>
LayoutFin    == << "N", "F", "F", "P", "N", "I", "T", "N", "I", "I",
                   "I", "I", "I", "I", "I", "E", "E", "E", "E", "N" >>
LayoutIpo    == << "N", "E", "I", "N", "P", "F", "N", "T", "I", "I",
                   "I", "I", "I", "I", "I", "E", "E", "E", "F", "N" >>
LayoutInvest == << "N", "I", "T", "I", "N", "N", "P", "F", "E", "E",
                   "F", "E", "E", "I", "I", "I", "I", "I", "I", "N" >>
\* Retail Partnership (40) at position 1, Expand to Asia Market (50) at 2 and
\* Referral Program (20) at 4: a player who buys the first two is left with 10.
LayoutBroke  == << "N", "I", "I", "T", "I", "F", "N", "F", "P", "N",
                   "E", "E", "E", "E", "I", "I", "I", "I", "I", "N" >>
BrokeInvestmentOrder == << 2, 4, 1, 14, 15, 16, 17, 18 >>
\* Retail Partnership (40) at position 1 and Expand to Asia Market (50) at 2,
\* then the Strategic Decision tile.
LayoutStrategy == << "N", "I", "I", "T", "N", "F", "N", "F", "P", "N",
                     "E", "E", "E", "E", "I", "I", "I", "I", "I", "I" >>
StrategyInvestmentOrder == << 2, 19, 1, 14, 15, 16, 17, 18 >>
\* Financing tiles at positions 1 and 3: a player can land on one in the
\* first, the second and (after 6, 6, 6) the fifth turn.
\* A player who rolls 2, 2, 1 takes financing at 2, buys at 4 and takes
\* financing again at 5; a player who rolls 1 four times comes to 4 in round 4.
LayoutBankrupt == << "N", "N", "F", "N", "I", "F", "E", "T", "N", "E",
                     "E", "I", "I", "I", "I", "I", "I", "I", "E", "P" >>
LayoutDilution == << "N", "F", "I", "F", "N", "N", "T", "P", "I", "I",
                     "I", "I", "I", "I", "I", "N", "E", "E", "E", "E" >>

\* Spec: games about debt and bankruptcy.  Nobody invests or goes public.
\* At a Financing tile a player skips, takes Debt of 70 (above the maximum)
\* or takes Equity of -200; an Event tile draws System Crash or Talent
\* Acquisition.
Init == \E layout \in {LayoutDebt, LayoutEvent} : InitGame(ShuffleOf(layout))

Next ==
    \/ TurnSkipped
    \/ TurnInvestment(Rolls, {"n"})
    \/ TurnFinancing(Rolls, {<< << 0 >>, << >> >>, << << 1 >>, << 70 >> >>,
                             << << 3 >>, << -200 >> >>})
    \/ TurnEvent(Rolls, {"System Crash", "Talent Acquisition"})
    \/ TurnNeutral(Rolls)
    \/ TurnSpecial(Rolls, {<< "n", << 0 >>, << 0 >> >>})
    \/ EndOfRound

Spec == Init /\ [][Next]_vars

\* SpecFin: games about the financing options.  Nobody invests.  At a
\* Financing tile a player types 1, 2 or 4 (Debt, then VC Funding or, once
\* that is used, Equity, then IPO when all four options are listed) and the
\* amount 70; at the IPO tile a player answers y or n; an Event tile draws
\* System Crash or Talent Acquisition.
InitFin == \E layout \in {LayoutFin, LayoutIpo} : InitGame(ShuffleOf(layout))

NextFin ==
    \/ TurnSkipped
    \/ TurnInvestment(Rolls, {"n"})
    \/ TurnFinancing(Rolls, {<< << 1 >>, << 70 >> >>, << << 2 >>, << 70 >> >>,
                             << << 4 >>, << 70 >> >>})
    \/ TurnEvent(Rolls, {"System Crash", "Talent Acquisition"})
    \/ TurnNeutral(Rolls)
    \/ TurnSpecial(Rolls, {<< "y", << 0 >>, << 0 >> >>, << "n", << 0 >>, << 0 >> >>})
    \/ EndOfRound

SpecFin == InitFin /\ [][NextFin]_vars

\* SpecInvest: games about projects.  Players invest or not and go public or
\* not at the IPO tile; at the Strategic Decision tile they skip or sell their
\* first project; at a Financing tile they skip; an Event tile draws System
\* Crash or Talent Acquisition.
InitInvest == \E layout \in {LayoutInvest, LayoutIpo} : InitGame(ShuffleOf(layout))

NextInvest ==
    \/ TurnSkipped
    \/ TurnInvestment(Rolls, {"y", "n"})
    \/ TurnFinancing(Rolls, {<< << 0 >>, << >> >>})
    \/ TurnEvent(Rolls, {"System Crash", "Talent Acquisition"})
    \/ TurnNeutral(Rolls)
    \/ TurnSpecial(Rolls, {<< "y", << 0 >>, << 0 >> >>, << "n", << 0 >>, << 0 >> >>,
                           << "n", << 1 >>, << 3 >> >>})
    \/ EndOfRound

SpecInvest == InitInvest /\ [][NextInvest]_vars

\* SpecBroke: games in which projects use up the cash.  Players invest or
\* not; at the Strategic Decision tile and at a Financing tile they skip and
\* at the IPO tile they answer n; an Event tile draws System Crash or Talent
\* Acquisition.
InitBroke ==
    \/ InitGame(ShuffleWith(LayoutBroke, BrokeInvestmentOrder))
    \/ InitGame(ShuffleOf(LayoutEvent))

NextBroke ==
    \/ TurnSkipped
    \/ TurnInvestment(Rolls, {"y", "n"})
    \/ TurnFinancing(Rolls, {<< << 0 >>, << >> >>})
    \/ TurnEvent(Rolls, {"System Crash", "Talent Acquisition"})
    \/ TurnNeutral(Rolls)
    \/ TurnSpecial(Rolls, {<< "n", << 0 >>, << 0 >> >>})
    \/ EndOfRound

SpecBroke == InitBroke /\ [][NextBroke]_vars

\* SpecStrategy: games about the Strategic Decision tile.  Players invest or
\* not; at the Strategic Decision tile they skip or choose Expand, Pivot or
\* Sell for their first project; at a Financing tile they skip and at the IPO
\* tile they answer n; an Event tile draws System Crash or Talent Acquisition.
InitStrategy ==
    \/ InitGame(ShuffleWith(LayoutStrategy, StrategyInvestmentOrder))
    \/ InitGame(ShuffleOf(LayoutEvent))

NextStrategy ==
    \/ TurnSkipped
    \/ TurnInvestment(Rolls, {"y", "n"})
    \/ TurnFinancing(Rolls, {<< << 0 >>, << >> >>})
    \/ TurnEvent(Rolls, {"System Crash", "Talent Acquisition"})
    \/ TurnNeutral(Rolls)
    \/ TurnSpecial(Rolls, {<< "n", << 0 >>, << 0 >> >>, << "n", << 1 >>, << 1 >> >>,
                           << "n", << 1 >>, << 2 >> >>, << "n", << 1 >>, << 3 >> >>})
    \/ EndOfRound

SpecStrategy == InitStrategy /\ [][NextStrategy]_vars

\* SpecMove: games about the moves.  The die shows any of its faces; nobody
\* invests, takes financing or goes public, and an Event tile draws System
\* Crash.
InitMove == InitGame(ShuffleOf(LayoutEvent))

NextMove ==
    \/ TurnSkipped
    \/ TurnInvestment(1..DieSides, {"n"})
    \/ TurnFinancing(1..DieSides, {<< << 0 >>, << >> >>})
    \/ TurnEvent(1..DieSides, {"System Crash"})
    \/ TurnNeutral(1..DieSides)
    \/ TurnSpecial(1..DieSides, {<< "n", << 0 >>, << 0 >> >>})
    \/ EndOfRound

SpecMove == InitMove /\ [][NextMove]_vars

\* SpecDilution: games about equity dilution.  The die shows 1, 2 or 6 (the
\* faces that take a player to both Financing tiles and around the board to
\* the first again); at a Financing tile a player takes Equity; nobody
\* invests or goes public, and an Event tile draws System Crash.
InitDilution == InitGame(ShuffleOf(LayoutDilution))

DilutionRolls == {1, 2, DieSides}

NextDilution ==
    \/ TurnSkipped
    \/ TurnInvestment(DilutionRolls, {"n"})
    \/ TurnFinancing(DilutionRolls, {<< << 3 >>, << 70 >> >>})
    \/ TurnEvent(DilutionRolls, {"System Crash"})
    \/ TurnNeutral(DilutionRolls)
    \/ TurnSpecial(DilutionRolls, {<< "n", << 0 >>, << 0 >> >>})
    \/ EndOfRound

SpecDilution == InitDilution /\ [][NextDilution]_vars

\* SpecBankrupt: games in which a project owner goes bankrupt.  The die shows
\* 1 or 2; players buy every project they can; at a Financing tile a player
\* takes Debt of 70 (above the maximum) or Equity of -200; nobody goes
\* public, and an Event tile draws System Crash.
InitBankrupt == InitGame(ShuffleOf(LayoutBankrupt))

BankruptRolls == {1, 2}

NextBankrupt ==
    \/ TurnSkipped
    \/ TurnInvestment(BankruptRolls, {"y"})
    \/ TurnFinancing(BankruptRolls, {<< << 1 >>, << 70 >> >>, << << 3 >>, << -200 >> >>})
    \/ TurnEvent(BankruptRolls, {"System Crash"})
    \/ TurnNeutral(BankruptRolls)
    \/ TurnSpecial(BankruptRolls, {<< "n", << 0 >>, << 0 >> >>})
    \/ EndOfRound

SpecBankrupt == InitBankrupt /\ [][NextBankrupt]_vars

\* SpecBoard: the construction of the board.  The shuffles tried are the
\* lists j -> (a j + b) mod 20 for a prime to 20, with two entries exchanged.
Units == {a \in 1..(BoardSize - 1) : \A d \in 2..a : ~(a % d = 0 /\ BoardSize % d = 0)}
Affine(a, b) == [j \in 1..BoardSize |-> (a * (j - 1) + b) % BoardSize]
Exchanged(positions, c, d) ==
    [j \in 1..Len(positions) |->
        IF j = c THEN positions[d] ELSE IF j = d THEN positions[c] ELSE positions[j]]
Shuffles ==
    {Exchanged(Affine(a, b), c, d) :
        a \in Units, b \in 0..(BoardSize - 1), c \in 1..BoardSize, d \in 1..BoardSize}

NextBoard == InitializeGame(Shuffles)

SpecBoard == InitBoard /\ [][NextBoard]_vars

\* SpecPlayer: pay, receive, add_users and lose_users called directly in any
\* order on the first player of a new game, with amounts below, at and above
\* what the player holds.
InitPlayer == InitGame(ShuffleOf(LayoutEvent))

NextPlayer ==
    \/ CallPay({1}, {0 - 5 * S, 0, PivotCost * S, ExpandCost * S, 200 * S})
    \/ CallReceive({1}, {10 * S, 40 * S})
    \/ CallAddUsers({1}, {S \div 2, Projects[1].user_gain})
    \/ CallLoseUsers({1}, {1 * S, 5 * S})

SpecPlayer == InitPlayer /\ [][NextPlayer]_vars

\* SpecNpv: calculate_total_npv and show_scoreboard called directly, between
\* calls of add_project and add_financing that change what they report.
InitNpv == InitGame(ShuffleOf(LayoutEvent))

NextNpv ==
    \/ CallAddProject({1}, {1, 5}, {1})
    \/ CallAddFinancing({1}, {"VC Funding", "IPO"})
    \/ CallCalculateTotalNpv({1}, {1, LastRound, LastRound + 1})
    \/ CallShowScoreboard

SpecNpv == InitNpv /\ [][NextNpv]_vars

\* SpecMenu: handle_financing_tile and handle_special_tile (on the Strategic
\* Decision tile) called directly for the first player of a game whose round
\* counter is any of 1..5, with lines that are no number, numbers on the menu
\* and numbers off it; add_project gives the player projects to decide about.
InitMenu ==
    \E round \in 1..LastRound :
        /\ players = [j \in 1..NumPlayers |-> j]
        /\ player = [p \in 1..NumPlayers |-> NewPlayer]
        /\ project = [k \in 1..Len(Projects) |-> NewProject(k)]
        /\ board = CreateBoard(ShuffleOf(LayoutEvent))
        /\ current_round = round
        /\ current_player_index = 0
        /\ game_over = FALSE
        /\ i = 0
        /\ pc = "round"
        /\ scoreboard = << >>
        /\ final_scores = << >>
        /\ winner = 0
        /\ returned = NoCall

MenuLines == {<< >>, << 0 >>, << 1 >>, << 2 >>, << 3 >>, << 4 >>, << 5 >>}
AmountLines == {<< >>, << 70 >>}

NextMenu ==
    \/ CallHandleFinancingTile({1}, MenuLines \X AmountLines)
    \/ CallHandleStrategyTile({1}, {<< << >>, << >> >>, << << 1 >>, << >> >>,
                                    << << 1 >>, << 1 >> >>, << << 3 >>, << 1 >> >>})
    \/ CallAddProject({1}, {1, 5}, {1})

SpecMenu == InitMenu /\ [][NextMenu]_vars

(***************************************************************************)
(* Properties                                                              *)
(***************************************************************************)
PlayerIds == 1..NumPlayers
InPlay(p) == \E j \in 1..Len(players) : players[j] = p
InPlayNext(p) == \E j \in 1..Len(players') : players'[j] = p
EndOfRoundStep == current_round' = current_round + 1
Eliminated(p) == ~InPlay(p)

RECURSIVE Count(_, _)
Count(list, x) ==
    IF list = << >> THEN 0
    ELSE (IF Head(list) = x THEN 1 ELSE 0) + Count(Tail(list), x)

RECURSIVE CountNamed(_, _)
CountNamed(history, name) ==
    IF history = << >> THEN 0
    ELSE (IF Head(history)[1] = name THEN 1 ELSE 0) + CountNamed(Tail(history), name)

OptionNames(q, round) ==
    {AvailableOptions(q, round)[j].name : j \in 1..Len(AvailableOptions(q, round))}

\* C1 (as claimed): in an end-of-round step every player in the game with
\* debt > 0 either pays exactly 6% of the debt (when cash covers it) and stays,
\* or is removed from the player list.
C1_EveryDebtorChargedOrRemoved ==
    [][EndOfRoundStep =>
        \A p \in PlayerIds :
            (InPlay(p) /\ player[p].debt > 0) =>
                IF player[p].cash >= (player[p].debt * 6) \div 100
                THEN /\ player'[p].cash = player[p].cash - (player[p].debt * 6) \div 100
                     /\ InPlayNext(p)
                ELSE ~InPlayNext(p)]_vars

\* C2 (as claimed): when an end-of-round step has completed, every player
\* still in the player list has cash >= 0.
C2_CashNonNegativeAfterRound ==
    (i = 0 /\ current_round > 1) =>
        \A p \in PlayerIds : InPlay(p) => player[p].cash >= 0

\* C5 (as claimed): when the game is over a winner is declared, the winner is
\* in the player list, and no player in the list has a greater total score.
C5_WinnerIsBestSurvivor ==
    game_over =>
        /\ winner \in PlayerIds
        /\ InPlay(winner)
        /\ \A q \in PlayerIds :
              InPlay(q) => TotalScore(player[winner], project, current_round)
                             >= TotalScore(player[q], project, current_round)

\* C6: the game terminates.  Every step is a turn of a round numbered at most
\* 5, which moves the loop to the next player, or the end-of-round step after
\* the last player's turn, which adds 1 to the round counter; game_over holds
\* exactly when the counter is past 5; and until then the game is in a turn or
\* at the end of a round.
C6_GameTerminates ==
    /\ [](game_over <=> current_round > LastRound)
    /\ [](current_round \in 1..(LastRound + 1) /\ i \in 0..Len(players))
    /\ [](~game_over => (InTurn \/ RoundEnds))
    /\ [][\/ /\ current_round' = current_round + 1
             /\ i = Len(players) /\ i' = 0
          \/ /\ current_round' = current_round /\ current_round <= LastRound
             /\ i' = i + 1 /\ players' = players /\ ~game_over']_vars

\* C6 witness: a game that is over, with a player eliminated on the way.
C6_Witness ==
    game_over /\ current_round = LastRound + 1 /\ Len(players) < NumPlayers /\ Len(players) > 0

\* C7: VC funding is once per game per player.  A financing history holds at
\* most one VC Funding entry, vc_funding_used says whether it holds one, VC
\* Funding is not among the available options of a player who used it, and
\* the step that takes it adds 40 to cash and 0.10 to equity_dilution.
C7_VcOncePerGame ==
    /\ [](\A p \in PlayerIds :
            /\ CountNamed(player[p].financing_history, "VC Funding") <= 1
            /\ player[p].vc_funding_used
                 <=> CountNamed(player[p].financing_history, "VC Funding") = 1
            /\ player[p].vc_funding_used
                 => "VC Funding" \notin OptionNames(player[p], current_round))
    /\ [][\A p \in PlayerIds :
            (~player[p].vc_funding_used /\ player'[p].vc_funding_used) =>
                /\ player'[p].cash = player[p].cash + 40 * S
                /\ player'[p].equity_dilution = player[p].equity_dilution + 10]_vars

\* C7 witness: a player took VC funding and, at a later Financing tile, took
\* something else.
C7_Witness ==
    \E p \in PlayerIds :
        /\ player[p].vc_funding_used
        /\ Len(player[p].financing_history) >= 2
        /\ player[p].financing_history[1][1] = "VC Funding"

\* C8 (as claimed): a player who has done an IPO receives no IPO proceeds
\* again, neither at a Financing tile (a new IPO entry in the financing
\* history) nor at the IPO tile.
C8_IpoOncePerGame ==
    [][\A p \in PlayerIds :
          player[p].ipo_done =>
              CountNamed(player'[p].financing_history, "IPO")
                 = CountNamed(player[p].financing_history, "IPO")]_vars

\* C9: no IPO before round 4.  While current_round < 4 every player has
\* ipo_done = false and no IPO entry in the financing history.
C9_NoIpoBeforeRound4 ==
    current_round < IpoFirstRound =>
        \A p \in PlayerIds :
            /\ ~player[p].ipo_done
            /\ CountNamed(player[p].financing_history, "IPO") = 0

\* C9 witness: before round 4 a player stands on the IPO tile, and a player
\* has used a Financing tile.
C9_Witness ==
    /\ current_round < IpoFirstRound
    /\ \E p \in PlayerIds :
          player[p].position > 0 /\ TileAt(player[p].position).action = "IPO"
    /\ \E p \in PlayerIds : player[p].financing_history # << >>

\* end_game's bonus before any weight: 10 for an IPO, 2 for each owned project
RawBonus(q) == (IF q.ipo_done THEN 10 ELSE 0) + 2 * Len(q.projects)

ScoreOf(p) == final_scores[CHOOSE j \in 1..Len(final_scores) : final_scores[j].player = p]
Scored(p) == \E j \in 1..Len(final_scores) : final_scores[j].player = p

\* C3 (as claimed): the final score of every surviving player is
\* 0.4 NPV + 0.3 users + 0.1 cash + 0.04 (raw bonus), here times 10 S.
C3_BonusWeight004 ==
    game_over =>
        \A p \in PlayerIds :
            InPlay(p) =>
                /\ Scored(p)
                /\ ScoreOf(p).total_score
                     = 4 * ScoreOf(p).npv + 3 * player[p].users + player[p].cash
                       + (4 * RawBonus(player[p]) * S) \div 10

\* C3 (amended): the final score of every surviving player is
\* 0.4 NPV + 0.3 users + 0.1 cash + 0.2 (raw bonus), here times 10 S: the
\* bonus is weighted by 0.2 once.
C3_BonusWeight02 ==
    game_over =>
        /\ Len(final_scores) = Len(players)
        /\ \A p \in PlayerIds :
              InPlay(p) =>
                  /\ Scored(p)
                  /\ ScoreOf(p).total_score
                       = 4 * ScoreOf(p).npv + 3 * player[p].users + player[p].cash
                         + 2 * RawBonus(player[p]) * S

\* C3 witness: the game is over and a scored player did an IPO and owns a project.
C3_Witness ==
    /\ game_over
    /\ \E p \in PlayerIds :
          InPlay(p) /\ Scored(p) /\ player[p].ipo_done /\ Len(player[p].projects) >= 1

\* C4 (as claimed): the NPV in a surviving player's final score is the NPV
\* the round-5 standings reported for that player (both as printed, to two
\* decimals).
C4_FinalNpvIsRound5Npv ==
    game_over =>
        \A p \in PlayerIds :
            InPlay(p) =>
                \E j \in 1..Len(scoreboard) :
                    /\ scoreboard[j].player = p
                    /\ Scored(p)
                    /\ scoreboard[j].npv = Fmt2(ScoreOf(p).npv)

\* C10: project ownership is exclusive and consistent.  A project is at most
\* once in a project list, its owner is p exactly when it is in p's list (so
\* it is in one list at most, and in none exactly when it has no owner); and
\* an owner changes only from none to a player (a purchase) or from a player
\* to none (a sale), never from one player to another.
C10_OwnershipConsistent ==
    /\ [](\A k \in 1..Len(Projects) :
            /\ project[k].owner \in 0..NumPlayers
            /\ \A p \in PlayerIds :
                  /\ Count(player[p].projects, k) <= 1
                  /\ project[k].owner = p <=> Count(player[p].projects, k) = 1)
    /\ [][\A k \in 1..Len(Projects) :
            project'[k].owner # project[k].owner =>
                (project[k].owner = 0 \/ project'[k].owner = 0)]_vars

\* C10 witness: a project was bought and sold and is unowned, another is
\* owned, and a player other than its owner stands on the owned one's tile.
C10_Witness ==
    /\ \E k \in 1..Len(Projects) : project[k].owner = 0 /\ project[k].purchase_round # 0
    /\ \E k \in 1..Len(Projects), p \in PlayerIds :
          /\ project[k].owner # 0 /\ project[k].owner # p
          /\ TileAt(player[p].position).project = k


\* board construction: the number of tiles of a type
TilesOfType(tile_type) == Cardinality({idx \in DOMAIN board : board[idx].tile_type = tile_type})
TilesWithAction(action) == Cardinality({idx \in DOMAIN board : board[idx].action = action})

\* C11: whatever the shuffle, the board built has 20 entries, the entry of
\* every position 0..19 is a tile whose position field is that position, there
\* are 8 Investment, 2 Financing, 4 Event, 4 Neutral and 2 Special tiles, and
\* the Special tiles are one IPO tile and one Strategy tile.
C11_BoardWellFormed ==
    pc # "init" =>
        /\ Len(board) = BoardSize
        /\ \A idx \in 1..BoardSize : board[idx].position = idx - 1
        /\ TilesOfType("Investment") = 8
        /\ TilesOfType("Financing") = 2
        /\ TilesOfType("Event") = 4
        /\ TilesOfType("Neutral") = 4
        /\ TilesOfType("Special") = 2
        /\ TilesWithAction("IPO") = 1
        /\ TilesWithAction("Strategy") = 1
        /\ \A idx \in 1..BoardSize :
              board[idx].action \in {"IPO", "Strategy"} <=> board[idx].tile_type = "Special"

\* C11 witness: a board built from a shuffle that is not the identity: the
\* Strategy tile is at position 0 and the first project's tile at position 19.
C11_Witness ==
    /\ pc = "created"
    /\ board[1].action = "Strategy"
    /\ board[BoardSize].tile_type = "Investment" /\ board[BoardSize].project = 1


\* A turn that is played (not skipped), and the type of the tile it lands on
PlayedTurn == InTurn /\ ~player[Current].skip_next_turn /\ i' = i + 1
LandsOn(tile_type) == PlayedTurn /\ TileAt(player'[Current].position).tile_type = tile_type
\* The players after the move of the turn, before the tile's handler
AfterMove == [player EXCEPT ![Current].position = player'[Current].position]

C13_PayGuarded ==
    [][returned'.call = "pay" =>
        LET p == returned'.self
            amount == returned'.args[1]
        IN /\ IF player[p].cash >= amount
              THEN /\ returned'.value = TRUE
                   /\ player' = [player EXCEPT ![p].cash = @ - amount]
              ELSE /\ returned'.value = FALSE
                   /\ player' = player
           /\ project' = project]_vars

\* C13 witness: pay has just failed for a player holding some cash, who paid
\* successfully before (the cash is below the starting cash).
C13_Witness ==
    /\ returned.call = "pay"
    /\ returned.value = FALSE
    /\ player[returned.self].cash > 0
    /\ player[returned.self].cash < StartingCash * S

\* C14: the user count of every player is at least 0 in every state.
C14_UsersNonNegative ==
    \A p \in DOMAIN player : player[p].users >= 0

\* C14 witness: lose_users has just been called with more than MaxUsers, so
\* with more than the player had, and the player has no users.
C14_Witness ==
    /\ returned.call = "lose_users"
    /\ returned.args[1] > MaxUsers * S
    /\ player[returned.self].users = 0

C15_SkipTurn ==
    [][/\ InTurn =>
            IF player[Current].skip_next_turn
            THEN /\ player' = [player EXCEPT ![Current].skip_next_turn = FALSE]
                 /\ project' = project
                 /\ i' = i + 1
            ELSE /\ \E dice_roll \in 1..DieSides :
                       player'[Current].position
                          = (player[Current].position + dice_roll) % BoardSize
                 /\ player'[Current].skip_next_turn =>
                       TileAt(player'[Current].position).tile_type = "Event"
       /\ \A p \in PlayerIds :
             player'[p].skip_next_turn # player[p].skip_next_turn =>
                 (InTurn /\ Current = p)]_vars

\* C15 witness: the three turns of each player for rounds 1 to 3 are over and
\* a player who is on the tile after an Event tile has the flag clear: the
\* player landed on the Event tile, skipped a turn and played the next.
C15_Witness ==
    /\ current_round = 3 /\ i = Len(players) /\ Len(players) = NumPlayers
    /\ \E p \in PlayerIds :
          /\ player[p].position = 2
          /\ TileAt(1).tile_type = "Event"
          /\ ~player[p].skip_next_turn

\* C16: in a round the turns go to the players of the list in list order,
\* one each: a turn is the turn of the player at the loop index, it moves the
\* index on by one and changes no other player and not the list; the
\* end-of-round step runs when the index has passed the last player, sets the
\* index back to 0 and only removes players from the list; the list never
\* holds a player twice; and a player who is not in the list never comes back
\* and never changes, so takes no turn.
C16_OneTurnEachInOrder ==
    /\ [](/\ i \in 0..Len(players)
          /\ \A j, k \in 1..Len(players) : players[j] = players[k] => j = k)
    /\ [][/\ current_round' = current_round =>
                /\ InTurn
                /\ i' = i + 1
                /\ current_player_index' = i
                /\ players' = players
                /\ player'[players[i + 1]] # player[players[i + 1]]
                /\ \A p \in PlayerIds \ {players[i + 1]} : player'[p] = player[p]
          /\ current_round' # current_round =>
                /\ current_round' = current_round + 1
                /\ i = Len(players)
                /\ i' = 0
                /\ \A j, k \in 1..Len(players') :
                      j < k => \E a, b \in 1..Len(players) :
                                  a < b /\ players[a] = players'[j] /\ players[b] = players'[k]
          /\ \A p \in PlayerIds :
                ~InPlay(p) => (~InPlayNext(p) /\ player'[p] = player[p])]_vars

\* C16 witness: round 4 has been played by the two players left, who have
\* had four turns each; the third was eliminated at the end of round 2.
C16_Witness ==
    /\ current_round = 4 /\ i = Len(players) /\ Len(players) = 2
    /\ \A p \in PlayerIds : InPlay(p) => player[p].position = 4
    /\ \E p \in PlayerIds : ~InPlay(p) /\ player[p].position = 2


\* The sum of annual_cash_flow over the projects whose owner is p, among the
\* first n projects
RECURSIVE FlowOfOwned(_, _)
FlowOfOwned(n, p) ==
    IF n = 0 THEN 0
    ELSE (IF project[n].owner = p THEN project[n].annual_cash_flow ELSE 0) + FlowOfOwned(n - 1, p)

\* C17: a turn that lands on a Neutral tile adds to the player's cash the sum
\* of annual_cash_flow of the projects the player owns, whatever the round and
\* the projects' remaining life, and changes nothing else of the player (after
\* the move), of the other players or of any project.
C17_NeutralCollects ==
    [][LandsOn("Neutral") =>
        /\ player' = [AfterMove EXCEPT ![Current].cash = @ + FlowOfOwned(Len(Projects), Current)]
        /\ project' = project]_vars

\* C17 witness: in round 5 a player who owns two projects, one of them with
\* no life left, has landed on a Neutral tile right after another Neutral tile.
C17_Witness ==
    /\ current_round = LastRound
    /\ current_player_index + 1 <= Len(players) /\ i = current_player_index + 1
    /\ LET p == players[current_player_index + 1]
       IN /\ player[p].position = 5
          /\ TileAt(5).tile_type = "Neutral" /\ TileAt(4).tile_type = "Neutral"
          /\ Len(player[p].projects) = 2
          /\ \E j \in 1..2 :
                LET k == player[p].projects[j]
                IN project[k].life - (current_round - project[k].purchase_round) <= 0

\* C19: a turn that lands on the Strategic Decision tile changes nothing
\* (after the move) or applies one action to one project k of the player:
\* Expand, only with cash >= 20, deducts 20 and multiplies k's cash flow by
\* 1.5; Pivot, only with cash >= 15, deducts 15, multiplies k's cash flow by
\* 1.2 and adds 1 to its life; Sell adds half of k's cost to cash, removes k
\* from the player's list and clears its owner.  Nothing else changes.
C19_StrategyTile ==
    [][(LandsOn("Special") /\ TileAt(player'[Current].position).action = "Strategy") =>
        LET c == Current
        IN \/ player' = AfterMove /\ project' = project
           \/ \E j \in 1..Len(player[c].projects) :
                 LET k == player[c].projects[j]
                 IN \/ /\ player[c].cash >= ExpandCost * S
                       /\ player' = [AfterMove EXCEPT ![c].cash = @ - ExpandCost * S]
                       /\ project' = [project EXCEPT ![k].annual_cash_flow = (@ * 3) \div 2]
                    \/ /\ player[c].cash >= PivotCost * S
                       /\ player' = [AfterMove EXCEPT ![c].cash = @ - PivotCost * S]
                       /\ project' = [project EXCEPT ![k].annual_cash_flow = (@ * 6) \div 5,
                                                     ![k].life = @ + 1]
                    \/ /\ player' = [AfterMove EXCEPT
                                        ![c].cash = @ + Projects[k].cost \div 2,
                                        ![c].projects = SelectSeq(@, LAMBDA x : x # k)]
                       /\ project' = [project EXCEPT ![k].owner = 0]]_vars

\* C19 witness: a player who owns two projects and holds less than the cost of
\* Pivot (and of Expand) has played a turn onto the Strategic Decision tile
\* and still owns both, with the cash flows they had.
C19_Witness ==
    /\ current_player_index + 1 <= Len(players) /\ i = current_player_index + 1
    /\ LET p == players[current_player_index + 1]
       IN /\ TileAt(player[p].position).action = "Strategy"
          /\ Len(player[p].projects) = 2
          /\ player[p].cash < PivotCost * S
          /\ \A j \in 1..2 :
                project[player[p].projects[j]].annual_cash_flow
                   = Projects[player[p].projects[j]].annual_cash_flow

\* The maximum of the financing option of a name
MaxAmountOf(name) ==
    FinancingOptions[CHOOSE j \in 1..Len(FinancingOptions) : FinancingOptions[j].name = name].max_amount

\* C20: a financing action (a new entry of a financing history) credits the
\* player's cash with the amount of the entry, which is at most the option's
\* maximum (50 for Debt, 60 for Equity) and exactly the maximum for VC Funding
\* (40) and IPO (100); Debt adds exactly that amount to the debt and the other
\* options leave the debt as it is.
C20_FinancingCapped ==
    [][\A p \in PlayerIds :
          Len(player'[p].financing_history) # Len(player[p].financing_history) =>
              LET entry == player'[p].financing_history[Len(player'[p].financing_history)]
                  name == entry[1]
                  amount == entry[2]
              IN /\ player'[p].financing_history = Append(player[p].financing_history, entry)
                 /\ player'[p].cash = player[p].cash + amount
                 /\ amount <= MaxAmountOf(name) * S
                 /\ name \in {"VC Funding", "IPO"} => amount = MaxAmountOf(name) * S
                 /\ player'[p].debt = player[p].debt + (IF name = "Debt" THEN amount ELSE 0)]_vars

\* C20 witness: with 70 entered, one player has taken Debt and holds a debt
\* of 50, another has taken Equity and the entry says 60, and a player has
\* taken VC Funding.
C20_Witness ==
    /\ \E p \in PlayerIds :
          /\ player[p].debt = 50 * S
          /\ \E e \in 1..Len(player[p].financing_history) :
                player[p].financing_history[e] = << "Debt", 50 * S >>
    /\ \E p \in PlayerIds : \E e \in 1..Len(player[p].financing_history) :
          player[p].financing_history[e] = << "Equity", 60 * S >>
    /\ \E p \in PlayerIds : \E e \in 1..Len(player[p].financing_history) :
          player[p].financing_history[e] = << "VC Funding", 40 * S >>

\* C21: every position is in 0..19; a played turn moves the player whose turn
\* it is to (old position + die roll) modulo 20 for a die roll in 1..6 and
\* moves nobody else, and the handler that runs is the one of the tile at the
\* new position (here: the player must skip the next turn exactly when that
\* tile is an Event tile); any other step moves nobody.
C21_MoveWraps ==
    /\ [](\A p \in PlayerIds : player[p].position \in 0..(BoardSize - 1))
    /\ [][PlayedTurn =>
            LET c == Current
            IN /\ \E dice_roll \in 1..DieSides :
                     player'[c].position = (player[c].position + dice_roll) % BoardSize
               /\ \A q \in PlayerIds \ {c} : player'[q].position = player[q].position
               /\ player'[c].skip_next_turn
                     <=> TileAt(player'[c].position).tile_type = "Event"]_vars
    /\ [][~PlayedTurn =>
            \A q \in PlayerIds : player'[q].position = player[q].position]_vars

\* C21 witness: after the first round a player stands on position 0 again
\* (every player has played a turn by then, so the move wrapped around), and
\* after the second round a player has just landed on the Event tile of
\* position 1 (the player has come around the board to it).
C21_Witness ==
    /\ current_round > 2
    /\ \E p \in PlayerIds : player[p].position = 0
    /\ \E p \in PlayerIds :
          /\ player[p].position = 1
          /\ TileAt(1).tile_type = "Event"
          /\ player[p].skip_next_turn

\* C22: a call of handle_financing_tile in which the menu line is no number,
\* or in which the menu line selects Debt or Equity and the amount line is no
\* number, and a call of handle_special_tile on the Strategic Decision tile
\* in which the project line is no number, or in which the project line
\* selects a project and the strategy line is no number, returns with every
\* player and every project as they were before the call.
C22_BadInputIsNoOp ==
    [][LET p == returned'.self
           lines == returned'.args
           available_options == AvailableOptions(player[p], current_round)
       IN (\/ /\ returned'.call = "handle_financing_tile"
               /\ \/ ~IsNumber(lines[1])
                  \/ /\ IntOf(lines[1]) \in 1..Len(available_options)
                     /\ available_options[IntOf(lines[1])].name \in {"Debt", "Equity"}
                     /\ ~IsNumber(lines[2])
           \/ /\ returned'.call = "handle_special_tile"
               /\ \/ ~IsNumber(lines[1])
                  \/ /\ IntOf(lines[1]) \in 1..Len(player[p].projects)
                     /\ ~IsNumber(lines[2]))
          => /\ player' = player
             /\ project' = project
             /\ pc' = pc /\ game_over' = game_over]_vars

\* C22 witness: the first player, who holds a project and has taken financing
\* before, has chosen Debt at the menu and typed no number for the amount.
C22_Witness ==
    /\ returned.call = "handle_financing_tile"
    /\ returned.args = << << 1 >>, << >> >>
    /\ Len(player[1].projects) >= 1
    /\ Len(player[1].financing_history) = 1

\* The menu number printed for the option of the given name, 0 when it is
\* not printed
PrintedNumberOf(printed, name) ==
    IF \E e \in 1..Len(printed) : printed[e].name = name
    THEN printed[CHOOSE e \in 1..Len(printed) : printed[e].name = name].number
    ELSE 0

\* C23 (as claimed): a call of handle_financing_tile with a number typed at
\* the menu applies the option printed with that number, and applies nothing
\* when no option was printed with it.
C23_SelectedIsDisplayed ==
    [][(returned'.call = "handle_financing_tile" /\ IsNumber(returned'.args[1])) =>
          LET p == returned'.self
              k == IntOf(returned'.args[1])
              printed == returned'.value
          IN IF \E e \in 1..Len(printed) : printed[e].number = k
             THEN \E j \in 1..Len(FinancingOptions) :
                     /\ PrintedNumberOf(printed, FinancingOptions[j].name) = k
                     /\ player'[p] = ApplyOption(player[p], FinancingOptions[j], returned'.args[2])
             ELSE player'[p] = player[p]]_vars

\* C24: the equity dilution of every player (in hundredths) is less than 1,
\* so the factor (1 - equity_dilution) of calculate_total_npv is positive.
C24_DilutionBelowOne ==
    \A p \in PlayerIds :
        /\ player[p].equity_dilution < 100
        /\ 100 - player[p].equity_dilution > 0

\* C24 witness: a player has landed on a Financing tile three times, the
\* third time after going around the board, and has taken Equity each time.
C24_Witness ==
    \E p \in PlayerIds :
        /\ Len(player[p].financing_history) = 3
        /\ \A e \in 1..3 : player[p].financing_history[e][1] = "Equity"
        /\ player[p].equity_dilution = 60

\* C25: a step that removes a player from the game leaves every project as
\* it was, and a project whose owner is out of the game keeps its owner, its
\* purchase round and its place in no other player's list in every step (so
\* nobody who lands on its tile buys it).
C25_BankruptKeepsProjects ==
    /\ [][(\E p \in PlayerIds : InPlay(p) /\ ~InPlayNext(p)) => project' = project]_vars
    /\ [][\A k \in 1..Len(Projects) :
            (project[k].owner # 0 /\ ~InPlay(project[k].owner)) =>
                /\ project'[k] = project[k]
                /\ \A q \in PlayerIds :
                      Count(player'[q].projects, k) = Count(player[q].projects, k)]_vars

\* C25 witness: a player still in the game has just landed, with the cash to
\* buy it, on the Investment tile of a project whose owner is out of the game.
C25_Witness ==
    /\ current_player_index + 1 <= Len(players) /\ i = current_player_index + 1
    /\ LET q == players[current_player_index + 1]
           tile == TileAt(player[q].position)
       IN /\ tile.tile_type = "Investment"
          /\ project[tile.project].owner # 0
          /\ ~InPlay(project[tile.project].owner)
          /\ player[q].cash >= Projects[tile.project].cost

====
